---- MODULE Spec2Model ----
(***************************************************************************)
(* The FeatureCloud query-executor app: one state-machine run per party    *)
(* (src/states.py), the query / filter / report helpers it calls           *)
(* (src/utils.py) and the mocked data-source fetch (src/mocks.py).         *)
(*                                                                         *)
(* Text is modelled as follows.  A QuerySpec key and a record's code are   *)
(* sequences of hyphen-free segments (the string "hr-1" is <<"hr", "1">>), *)
(* so that rsplit("-", 1) and "-".join are computed, not assumed.  Numeric *)
(* text is a string of NumStrings; float() is the partial function         *)
(* Parses / float below.                                                   *)
(***************************************************************************)
EXTENDS Integers, Sequences, FiniteSets, TLC

VARIABLES
    current_state,   \* party -> name of the state the engine is in
    status,          \* party -> "running" | "finished" | "error"
    store,           \* party -> RunState (self.store / self.load)
    data_outgoing,   \* party -> contributions sent, not yet delivered
    data_incoming,   \* the coordinator's inbox, in receipt order
    local_csv,       \* party -> the party's local report file
    aggregated_csv,  \* /mnt/output/aggregated_results.csv
    test_data_csv,   \* TRUE once /mnt/output/test_data.csv has been written
    transition_log,  \* party -> the states entered so far, in order
    events,          \* party -> what the fatal steps did, in program order
    reducer_input,   \* what AgreggateState.run handed to dump_all_to_csv
    call,            \* a function applied on its own: its name and arguments
    result           \* what that function returned

vars == <<current_state, status, store, data_outgoing, data_incoming, local_csv,
          aggregated_csv, test_data_csv, transition_log, events, reducer_input,
          call, result>>

----------------------------------------------------------------------------
(* Bounds of the model *)

\* number of parties with role Participant (there is exactly one coordinator)
NumParticipants == 2

----------------------------------------------------------------------------
(* src/states.py: names of the states *)

INITIAL_STATE == "initial"
FETCH_DATA_STATE == "fetch"
WRITE_STATE == "write"
AGGREGATE_STATE == "aggregate"
GENERATE_TEST_DATA_STATE == "generate_test_data"
TERMINAL_STATE == "terminal"

StateNames == {INITIAL_STATE, FETCH_DATA_STATE, WRITE_STATE, AGGREGATE_STATE,
               GENERATE_TEST_DATA_STATE, TERMINAL_STATE}

\* the party that runs with role Coordinator
Coordinator == 0

Parties == 0 .. NumParticipants

Participants == Parties \ {Coordinator}

\* self.is_coordinator (states.py:104, 108): the role flag of a party
is_coordinator_everyone(p) == TRUE

is_coordinator(p) == p = Coordinator

----------------------------------------------------------------------------
(* Text and numbers *)

\* the numeric texts of the model; "abc" and "" are not numbers
NumStrings == {"2", "3", "5", "5.0", "abc", ""}

\* float(s) succeeds (no ValueError)
Parses(s) == s \in {"2", "3", "5", "5.0"}

\* float(s), for a text that parses: "5" and "5.0" are the same number
float(s) == CASE s = "2" -> 2
              [] s = "3" -> 3
              [] s = "5" -> 5
              [] s = "5.0" -> 5

\* the comparison operators check_numeric_value knows
ComparisonOperators == {"<", ">", "=", "<=", ">="}

\* all but the last element of a list: the slice [:-1]
AllButLast(s) == IF Len(s) = 0 THEN <<>> ELSE SubSeq(s, 1, Len(s) - 1)

\* key.rsplit("-", 1): the text before the last hyphen and the text after it,
\* or the key alone when it holds no hyphen (a list of segment sequences)
rsplit1(key) ==
    IF Len(key) >= 2
    THEN << SubSeq(key, 1, Len(key) - 1), <<key[Len(key)]>> >>
    ELSE << key >>

RECURSIVE join(_)
\* "-".join(parts): the parts' segments, in order
join(parts) == IF parts = <<>> THEN <<>> ELSE Head(parts) \o join(Tail(parts))

\* "-".join(key.rsplit("-", 1)[:-1])
key_prefix(key) == join(AllButLast(rsplit1(key)))

----------------------------------------------------------------------------
(* src/utils.py: check_numeric_value *)

\* lines 54-65 with "<=" taken as "<"
compare_strict(a, operator, b) ==
    CASE operator = "<" -> a < b
      [] operator = ">" -> a > b
      [] operator = "=" -> a = b
      [] operator = "<=" -> a < b
      [] operator = ">=" -> a >= b
      [] OTHER -> FALSE

\* lines 54-65: the chain of comparisons, False for any other operator
compare(a, operator, b) ==
    CASE operator = "<" -> a < b
      [] operator = ">" -> a > b
      [] operator = "=" -> a = b
      [] operator = "<=" -> a <= b
      [] operator = ">=" -> a >= b
      [] OTHER -> FALSE

\* lines 51-65, the body of the try: float() raises ValueError on a text
\* that is no number, otherwise the comparison is returned
try_body(value, operator, numeric_value) ==
    IF Parses(value) /\ Parses(numeric_value)
    THEN [raised |-> FALSE,
          value |-> compare(float(value), operator, float(numeric_value))]
    ELSE [raised |-> TRUE, value |-> FALSE]

\* lines 66-67: except ValueError: return False
except_ValueError(body) ==
    IF body.raised THEN [raised |-> FALSE, value |-> FALSE] ELSE body

\* the call's outcome: whether it raised, and the returned bool
check_numeric_value_outcome(value, operator, numeric_value) ==
    except_ValueError(try_body(value, operator, numeric_value))

\* value, numeric_value: numeric texts (float() of a number is that number,
\* so a caller that passes float(text) is modelled by passing the text)
check_numeric_value(value, operator, numeric_value) ==
    check_numeric_value_outcome(value, operator, numeric_value).value

----------------------------------------------------------------------------
(* src/utils.py: filter_results *)

\* marks a QuerySpec condition that carries no "logical_operator"
NoLogicalOperator == "<absent>"

\* the row filter_results builds from a matching entry (lines 106-112)
filtered_item(item) ==
    [code |-> item.code, display |-> item.display,
     numeric_value |-> item.numericValue, unit |-> item.unit,
     issued |-> item.issued]

\* line 104: the record's code is the condition's field name
code_matches(conditions_key, item) == item.code = key_prefix(conditions_key)

\* lines 104-105 for one (condition, record) pair: the row is emitted
emits(cond, item) ==
    /\ code_matches(cond.key, item)
    /\ Parses(cond.value)
    /\ check_numeric_value(item.numericValue, cond.operator, cond.value)

\* the rows one condition adds for one server's records, in record order
rows_for_condition(cond, json_list) ==
    LET Test(item) == emits(cond, item)
        kept == SelectSeq(json_list, Test)
    IN  [i \in 1 .. Len(kept) |-> filtered_item(kept[i])]

RECURSIVE filtered_list(_, _)
\* lines 84-113: the conditions in mapping order, then the records in order
filtered_list(payload, json_list) ==
    IF payload = <<>> THEN <<>>
    ELSE rows_for_condition(Head(payload), json_list)
         \o filtered_list(Tail(payload), json_list)

\* line 105: float(value) is evaluated outside check_numeric_value's try, for
\* every record whose code matches: a text that is no number raises ValueError
filter_raises(payload, responses) ==
    \E s \in 1 .. Len(responses), c \in 1 .. Len(payload) :
        \E i \in 1 .. Len(responses[s].entries) :
            /\ code_matches(payload[c].key, responses[s].entries[i])
            /\ ~Parses(payload[c].value)

\* the returned dict, as the list of its (server, rows) items in order
filtered_dict(payload, responses) ==
    [s \in 1 .. Len(responses) |->
        [server |-> responses[s].server,
         rows |-> filtered_list(payload, responses[s].entries)]]

filter_results(payload, responses) ==
    IF filter_raises(payload, responses)
    THEN [raised |-> TRUE, value |-> <<>>]
    ELSE [raised |-> FALSE, value |-> filtered_dict(payload, responses)]

\* group_results_per_server: server -> number of rows
group_results_per_server(results) ==
    [s \in 1 .. Len(results) |->
        [server |-> results[s].server, count |-> Len(results[s].rows)]]

----------------------------------------------------------------------------
(* src/utils.py: write_to_csv, dump_all_to_csv *)

\* dict.keys() of a row built by filter_results, in insertion order
keys(row) == <<"code", "display", "numeric_value", "unit", "issued">>

\* dict.values() of a row, in the same order
values(row) ==
    <<row.code, row.display, row.numeric_value, row.unit, row.issued>>

NoFile == [exists |-> FALSE, header |-> <<>>, rows |-> <<>>]

RECURSIVE all_rows(_)
\* every server's rows, servers in mapping order
all_rows(fd) == IF fd = <<>> THEN <<>> ELSE Head(fd).rows \o all_rows(Tail(fd))

\* line 146: list(filtered_dict.values())[0][0] exists
first_row_exists(fd) == Len(fd) >= 1 /\ Len(fd[1].rows) >= 1

\* write_to_csv taking its header from the first source that has a row
write_to_csv_first_nonempty(fd, io_ok, old_file) ==
    IF ~(\E j \in 1 .. Len(fd) : Len(fd[j].rows) >= 1)
    THEN [ok |-> FALSE, file |-> old_file]
    ELSE IF ~io_ok THEN [ok |-> FALSE, file |-> old_file]
    ELSE LET rows == all_rows(fd)
         IN  [ok |-> TRUE,
              file |-> [exists |-> TRUE, header |-> keys(rows[1]),
                        rows |-> [i \in 1 .. Len(rows) |-> values(rows[i])]]]

\* write_to_csv(filtered_dict, path) with the file system accepting the
\* write (io_ok) or not: the returned bool and the file left behind
write_to_csv(fd, io_ok, old_file) ==
    IF ~first_row_exists(fd) THEN [ok |-> FALSE, file |-> old_file]
    ELSE IF ~io_ok THEN [ok |-> FALSE, file |-> old_file]
    ELSE LET rows == all_rows(fd)
         IN  [ok |-> TRUE,
              file |-> [exists |-> TRUE, header |-> keys(fd[1].rows[1]),
                        rows |-> [i \in 1 .. Len(rows) |-> values(rows[i])]]]

RECURSIVE client_rows(_)
\* lines 204-208: one contribution's clients in mapping order, each client's
\* servers in mapping order, each server's rows in order
client_rows(contribution) ==
    IF contribution = <<>> THEN <<>>
    ELSE all_rows(Head(contribution).results) \o client_rows(Tail(contribution))

RECURSIVE flatten_newest_first(_)
flatten_newest_first(data) ==
    IF data = <<>> THEN <<>>
    ELSE flatten_newest_first(Tail(data)) \o client_rows(Head(data))

RECURSIVE flatten(_)
\* lines 200-208: the contributions in list order
flatten(data) ==
    IF data = <<>> THEN <<>> ELSE client_rows(Head(data)) \o flatten(Tail(data))

\* line 196: data[0].flat[0] has a first client with a first server with a
\* first row
header_row_exists(data) ==
    /\ Len(data) >= 1
    /\ Len(data[1]) >= 1
    /\ first_row_exists(data[1][1].results)

\* dump_all_to_csv(data): the file is opened (line 194) before the header is
\* derived, so a failed header derivation leaves an empty file behind
dump_all_to_csv(data, io_ok, old_file) ==
    IF ~io_ok THEN [ok |-> FALSE, file |-> old_file]
    ELSE IF ~header_row_exists(data)
    THEN [ok |-> FALSE, file |-> [exists |-> TRUE, header |-> <<>>, rows |-> <<>>]]
    ELSE LET rows == flatten(data)
         IN  [ok |-> TRUE,
              file |-> [exists |-> TRUE,
                        header |-> keys(data[1][1].results[1].rows[1]),
                        rows |-> [i \in 1 .. Len(rows) |-> values(rows[i])]]]

\* line 242: the default fraction, in percent
DefaultFrac == 20

\* line 243: the default seed
DefaultRandomState == 42

\* a call without keyword arguments
NoKwargs == [name \in {} |-> 0]

\* dict.get(name) or default: the default also replaces a zero
get_or(kwargs, name, default) ==
    IF name \in DOMAIN kwargs /\ kwargs[name] # 0 THEN kwargs[name] ELSE default

\* sample_data(input_file, output_file, **kwargs): the returned bool and the
\* fraction and seed computed on lines 242-243.  Line 246 passes frac= and
\* random_state= next to **kwargs: a keyword given twice is a TypeError, one
\* that DataFrame.sample does not know ("random state") as well
sample_data_call(input_file, kwargs, io_ok) ==
    LET frac == get_or(kwargs, "frac", DefaultFrac)
        random_state == get_or(kwargs, "random state", DefaultRandomState)
        type_error == DOMAIN kwargs \cap {"frac", "random_state", "random state"} # {}
    IN  [ok |-> input_file.exists /\ ~type_error /\ io_ok,
         frac |-> frac, random_state |-> random_state]

\* sample_data() as GenerateTestDataState calls it (no keyword arguments):
\* it reads the aggregate report and writes the sample
sample_data(input_file, io_ok) == sample_data_call(input_file, NoKwargs, io_ok).ok

----------------------------------------------------------------------------
(* src/mocks.py: mock_fhir_fetch *)

\* a party's data directory: server -> [present, entries]
mock_fhir_fetch(resource_type, servers, dir) ==
    IF servers = <<>> THEN [kind |-> "none", value |-> <<>>]
    ELSE IF \E i \in 1 .. Len(servers) : ~dir[servers[i]].present
    THEN [kind |-> "raised", value |-> <<>>]
    ELSE [kind |-> "dict",
          value |-> [i \in 1 .. Len(servers) |->
              LET Test(e) == e.resourceType = resource_type
              IN  [server |-> servers[i],
                   entries |-> SelectSeq(dir[servers[i]].entries, Test)]]]

----------------------------------------------------------------------------
(* The inputs of the model: configurations and data directories *)

Observation(code, value, issued) ==
    [resourceType |-> "Observation", code |-> code, display |-> "d",
     numericValue |-> value, unit |-> "u", issued |-> issued]

E_hr5 == Observation(<<"hr">>, "5", "t1")
E_hr2 == Observation(<<"hr">>, "2", "t2")
E_hrabc == Observation(<<"hr">>, "abc", "t3")
E_bp5 == Observation(<<"bp">>, "5.0", "t4")
E_patient == [resourceType |-> "Patient", code |-> <<"hr">>, display |-> "d",
              numericValue |-> "5", unit |-> "u", issued |-> "t5"]

Condition(key, operator, value, logical_operator) ==
    [key |-> key, operator |-> operator, value |-> value,
     logical_operator |-> logical_operator]

\* {"hr-1": {"operator": ">", "value": "3"}}
Q_one == << Condition(<<"hr", "1">>, ">", "3", NoLogicalOperator) >>
\* two conditions on the same field, joined by "and"
Q_two == << Condition(<<"hr", "1">>, ">", "3", "and"),
            Condition(<<"hr", "2">>, "<=", "5.0", NoLogicalOperator) >>
\* a comparison value that is no number
Q_bad_value == << Condition(<<"hr", "1">>, "<", "abc", NoLogicalOperator) >>

Servers == {"s1", "s2"}

ServerLists == { <<>>, <<"s1">>, <<"s1", "s2">> }

EntryLists == { <<>>, <<E_hr5, E_hr2>>, <<E_hrabc, E_patient>> }

\* the configurations a party may run with (self.config): the one-condition
\* query with every server list, and the query whose value is no number
Configs ==
    { [query |-> Q_one, fhir_servers |-> sl] : sl \in ServerLists }
    \cup { [query |-> Q_bad_value, fhir_servers |-> <<"s1">>] }

ServerDirs == {[present |-> FALSE, entries |-> <<>>]}
              \cup {[present |-> TRUE, entries |-> l] : l \in EntryLists}

\* the data directories of a party, for the servers it is configured with
DataDirs(servers) == [{servers[i] : i \in 1 .. Len(servers)} -> ServerDirs]

----------------------------------------------------------------------------
(* The engine: roles, registered transitions, the run loop's step *)

\* the transitions the register() methods declare (states.py), with the
\* roles each is registered for
Registered ==
    { [source |-> INITIAL_STATE, target |-> FETCH_DATA_STATE,
       participant |-> TRUE, coordinator |-> TRUE],
      [source |-> FETCH_DATA_STATE, target |-> WRITE_STATE,
       participant |-> TRUE, coordinator |-> TRUE],
      [source |-> WRITE_STATE, target |-> AGGREGATE_STATE,
       participant |-> FALSE, coordinator |-> TRUE],
      [source |-> WRITE_STATE, target |-> TERMINAL_STATE,
       participant |-> TRUE, coordinator |-> FALSE],
      [source |-> AGGREGATE_STATE, target |-> GENERATE_TEST_DATA_STATE,
       participant |-> FALSE, coordinator |-> TRUE],
      [source |-> GENERATE_TEST_DATA_STATE, target |-> TERMINAL_STATE,
       participant |-> FALSE, coordinator |-> TRUE] }

\* the engine performs a transition only if it is registered from the
\* current state for the party's role
can_transition(p, source, target) ==
    \E t \in Registered :
        /\ t.source = source
        /\ t.target = target
        /\ IF is_coordinator(p) THEN t.coordinator ELSE t.participant

\* run() returned `target`: the engine enters it, and finishes the run when
\* it is the terminal state; an unregistered transition is fatal
Transition(p, target) ==
    IF can_transition(p, current_state[p], target)
    THEN /\ current_state' = [current_state EXCEPT ![p] = target]
         /\ transition_log' = [transition_log EXCEPT ![p] = Append(@, target)]
         /\ status' = [status EXCEPT
                ![p] = IF target = TERMINAL_STATE THEN "finished" ELSE "running"]
    ELSE /\ status' = [status EXCEPT ![p] = "error"]
         /\ UNCHANGED <<current_state, transition_log>>

\* run() raised: the run ends in the error outcome, in the state it was in
Raise(p) ==
    /\ status' = [status EXCEPT ![p] = "error"]
    /\ UNCHANGED <<current_state, transition_log>>

Running(p, state_name) ==
    status[p] = "running" /\ current_state[p] = state_name

\* len(self._app.clients): the number of contributions gather_data waits for
ExpectedContributions == Cardinality(Parties)

EmptyStore == [query |-> <<>>, fhir_server_list |-> <<>>, filtered_results |-> <<>>]

\* the state of every party's run after construction
InitOrchestrator ==
    /\ current_state = [p \in Parties |-> INITIAL_STATE]
    /\ status = [p \in Parties |-> "running"]
    /\ store = [p \in Parties |-> EmptyStore]
    /\ data_outgoing = [p \in Parties |-> <<>>]
    /\ data_incoming = <<>>
    /\ local_csv = [p \in Parties |-> NoFile]
    /\ aggregated_csv = NoFile
    /\ test_data_csv = FALSE
    /\ transition_log = [p \in Parties |-> <<INITIAL_STATE>>]
    /\ events = [p \in Parties |-> <<>>]
    /\ reducer_input = [called |-> FALSE, data |-> <<>>]

NoCall == [fn |-> "none"]

NoResult == [done |-> FALSE]

Init ==
    /\ InitOrchestrator
    /\ call = NoCall
    /\ result = NoResult

----------------------------------------------------------------------------
(* src/states.py: the run() method of each state *)

\* TransformState.run: read the configuration, store it for the next states
TransformState(p) ==
    /\ Running(p, INITIAL_STATE)
    /\ \E config \in Configs :
          LET fhir_server_list == config.fhir_servers
              query == config.query
          IN  store' = [store EXCEPT ![p] =
                           [@ EXCEPT !.query = query,
                                     !.fhir_server_list = fhir_server_list]]
    /\ Transition(p, FETCH_DATA_STATE)
    /\ UNCHANGED <<data_outgoing, data_incoming, local_csv, aggregated_csv,
                   test_data_csv, events, reducer_input,
                   call, result>>

\* FetchState.run: fetch, filter, store the FilteredResult.  A fetch that
\* returns None (no servers) makes filter_results raise on responses.items().
\* Line 82 counts the rows per server only to log them (it names the counting
\* function group_results; utils.py defines it as group_results_per_server).
FetchState(p) ==
    /\ Running(p, FETCH_DATA_STATE)
    /\ \E dir \in DataDirs(store[p].fhir_server_list) :
          LET responses == mock_fhir_fetch("Observation",
                                           store[p].fhir_server_list, dir)
              filtered == filter_results(store[p].query, responses.value)
          IN  IF responses.kind # "dict" \/ filtered.raised
              THEN Raise(p) /\ UNCHANGED store
              ELSE /\ store' = [store EXCEPT
                                   ![p].filtered_results = filtered.value]
                   /\ Transition(p, WRITE_STATE)
    /\ UNCHANGED <<data_outgoing, data_incoming, local_csv, aggregated_csv,
                   test_data_csv, events, reducer_input,
                   call, result>>

\* "if not <step>(...): raise RuntimeError(...)" (lines 101-102, 127-128,
\* 141-142): a step that reports failure raises
must_raise_never(ok) == FALSE

must_raise(ok) == ~ok

\* line 106: data={self.id: filtered_results}, a one-entry mapping
contribution_first_server_only(p, filtered_results) ==
    << [client |-> p,
        results |-> SubSeq(filtered_results, 1, 1)] >>

contribution(p, filtered_results) ==
    << [client |-> p, results |-> filtered_results] >>

\* lines 101-106 in program order, given write_to_csv's result: a failed
\* write raises before anything is sent; every role sends
write_program_send_first(p, ok) ==
    IF ok THEN <<"send", "write_ok">> ELSE <<"send", "write_failed">>

write_program_send_twice(p, ok) ==
    IF ok THEN <<"write_ok", "send", "send">> ELSE <<"write_failed">>

write_program_participant_send_only(p, ok) ==
    IF ~ok THEN <<"write_failed">>
    ELSE IF is_coordinator(p) THEN <<"write_ok">> ELSE <<"write_ok", "send">>

write_program(p, ok) ==
    IF ok THEN <<"write_ok", "send">> ELSE <<"write_failed">>

\* lines 108-112: the state run() returns
write_next_state(p) ==
    IF is_coordinator(p) THEN AGGREGATE_STATE ELSE TERMINAL_STATE

\* how many times a party's program has sent
sends(program) == Cardinality({i \in 1 .. Len(program) : program[i] = "send"})

RECURSIVE repeat(_, _)
repeat(x, n) == IF n = 0 THEN <<>> ELSE <<x>> \o repeat(x, n - 1)

\* send_data_to_coordinator: the coordinator's own data goes straight into
\* its inbox, a participant's into its outgoing queue
send_data_to_coordinator(p, data, times) ==
    IF is_coordinator(p)
    THEN /\ data_incoming' = data_incoming \o repeat(data, times)
         /\ UNCHANGED data_outgoing
    ELSE /\ data_outgoing' = [data_outgoing EXCEPT ![p] = @ \o repeat(data, times)]
         /\ UNCHANGED data_incoming

\* WriteResultsState.run
WriteResultsState(p) ==
    /\ Running(p, WRITE_STATE)
    /\ \E io_ok \in BOOLEAN :
          LET filtered_results == store[p].filtered_results
              written == write_to_csv(filtered_results, io_ok, local_csv[p])
              program == write_program(p, written.ok)
          IN  /\ local_csv' = [local_csv EXCEPT ![p] = written.file]
              /\ events' = [events EXCEPT ![p] = @ \o program]
              /\ send_data_to_coordinator(p, contribution(p, filtered_results),
                                          sends(program))
              /\ IF must_raise(written.ok) THEN Raise(p)
                 ELSE Transition(p, write_next_state(p))
    /\ UNCHANGED <<store, aggregated_csv, test_data_csv, reducer_input,
                   call, result>>

\* the controller moves a participant's oldest outgoing contribution into
\* the coordinator's inbox
Deliver(p) ==
    /\ data_outgoing[p] # <<>>
    /\ data_incoming' = Append(data_incoming, Head(data_outgoing[p]))
    /\ data_outgoing' = [data_outgoing EXCEPT ![p] = Tail(@)]
    /\ UNCHANGED <<current_state, status, store, local_csv, aggregated_csv,
                   test_data_csv, transition_log, events, reducer_input,
                   call, result>>

\* line 122, self.gather_data(): blocks until one contribution per client has
\* come in, then takes that many from the inbox in receipt order
gather_data_no_wait(inbox) ==
    [ready |-> Len(inbox) >= 1, data |-> inbox, rest |-> <<>>]

gather_data(inbox) ==
    IF Len(inbox) >= ExpectedContributions
    THEN [ready |-> TRUE,
          data |-> SubSeq(inbox, 1, ExpectedContributions),
          rest |-> SubSeq(inbox, ExpectedContributions + 1, Len(inbox))]
    ELSE [ready |-> FALSE, data |-> <<>>, rest |-> inbox]

\* AgreggateState.run
AgreggateState(p) ==
    /\ Running(p, AGGREGATE_STATE)
    /\ gather_data(data_incoming).ready
    /\ \E io_ok \in BOOLEAN :
          LET gathered == gather_data(data_incoming)
              dumped == dump_all_to_csv(gathered.data, io_ok, aggregated_csv)
          IN  /\ data_incoming' = gathered.rest
              /\ reducer_input' = [called |-> TRUE, data |-> gathered.data]
              /\ aggregated_csv' = dumped.file
              /\ events' = [events EXCEPT ![p] =
                    Append(@, IF dumped.ok THEN "aggregate_ok"
                              ELSE "aggregate_failed")]
              /\ IF must_raise(dumped.ok) THEN Raise(p)
                 ELSE Transition(p, GENERATE_TEST_DATA_STATE)
    /\ UNCHANGED <<store, data_outgoing, local_csv, test_data_csv,
                   call, result>>

\* GenerateTestDataState.run
GenerateTestDataState(p) ==
    /\ Running(p, GENERATE_TEST_DATA_STATE)
    /\ \E io_ok \in BOOLEAN :
          LET sampled == sample_data(aggregated_csv, io_ok)
          IN  /\ test_data_csv' = (test_data_csv \/ sampled)
              /\ events' = [events EXCEPT ![p] =
                    Append(@, IF sampled THEN "sample_ok" ELSE "sample_failed")]
              /\ IF must_raise(sampled) THEN Raise(p)
                 ELSE Transition(p, TERMINAL_STATE)
    /\ UNCHANGED <<store, data_outgoing, data_incoming, local_csv,
                   aggregated_csv, reducer_input,
                   call, result>>

Next ==
    \E p \in Parties :
        \/ TransformState(p)
        \/ FetchState(p)
        \/ WriteResultsState(p)
        \/ AgreggateState(p)
        \/ GenerateTestDataState(p)
        \/ Deliver(p)

Spec == Init /\ [][Next]_vars

\* the parties' run loops and the controller's relay keep running: the app
\* does not stop while some party can take a step or a contribution is queued
FairSpec == Spec /\ WF_vars(Next)

----------------------------------------------------------------------------
(* Properties of the orchestrator *)

Occurs(x, seq) == \E i \in 1 .. Len(seq) : seq[i] = x

Count(x, seq) == Cardinality({i \in 1 .. Len(seq) : seq[i] = x})

NoRepeats(seq) == \A i, j \in 1 .. Len(seq) : seq[i] = seq[j] => i = j

\* the party ids of a list of contributions, in list order
Senders(data) == [i \in 1 .. Len(data) |-> data[i][1].client]

\* the contributions of party p that exist anywhere: queued, in the inbox or
\* handed to the reducer
ContributionsOf(p) ==
    Count(p, Senders(data_outgoing[p])) + Count(p, Senders(data_incoming))
    + Count(p, Senders(reducer_input.data))

\* C1: a party whose role is Participant is never in Aggregate or
\* GenerateTestData and has never entered them: it only ever occupies Init,
\* Fetch, Write and Terminal.
C1_ParticipantStates ==
    \A p \in Participants :
        /\ current_state[p] \in {INITIAL_STATE, FETCH_DATA_STATE, WRITE_STATE,
                                 TERMINAL_STATE}
        /\ ~Occurs(AGGREGATE_STATE, transition_log[p])
        /\ ~Occurs(GENERATE_TEST_DATA_STATE, transition_log[p])

\* a participant has finished while the coordinator is in Aggregate
C1_Witness ==
    /\ current_state[Coordinator] = AGGREGATE_STATE
    /\ \E p \in Participants : current_state[p] = TERMINAL_STATE

\* C2: the reducer is invoked only on exactly one contribution from every
\* configured party, the coordinator included: none missing, none twice.
C2_ReducerInputComplete ==
    reducer_input.called =>
        /\ Len(reducer_input.data) = Cardinality(Parties)
        /\ \A i \in 1 .. Len(reducer_input.data) : Len(reducer_input.data[i]) = 1
        /\ \A p \in Parties : Count(p, Senders(reducer_input.data)) = 1

\* the reducer ran and wrote the aggregate report
C2_Witness ==
    /\ reducer_input.called
    /\ Occurs("aggregate_ok", events[Coordinator])
    /\ aggregated_csv.exists

AllTerminal == \A p \in Parties : current_state[p] = TERMINAL_STATE

FullCoordinatorPath ==
    <<INITIAL_STATE, FETCH_DATA_STATE, WRITE_STATE, AGGREGATE_STATE,
      GENERATE_TEST_DATA_STATE, TERMINAL_STATE>>

\* some party's Fetch or Write step failed
FetchOrWriteFailed ==
    \E p \in Parties :
        status[p] = "error" /\ current_state[p] \in {FETCH_DATA_STATE, WRITE_STATE}

\* some party's run ended in the error outcome
SomeStepFailed == \E p \in Parties : status[p] = "error"

NeverSends(p) == status[p] = "error" /\ ContributionsOf(p) = 0

\* C4: while an expected party never sends, the coordinator does not invoke
\* the reducer, does not enter GenerateTestData or Terminal, and in Aggregate
\* it stays blocked (still running, no error).
C4_MissingContributionBlocks ==
    (\E p \in Participants : NeverSends(p)) =>
        /\ ~reducer_input.called
        /\ current_state[Coordinator] \notin {GENERATE_TEST_DATA_STATE, TERMINAL_STATE}
        /\ current_state[Coordinator] = AGGREGATE_STATE
              => status[Coordinator] = "running"

\* all but one of the expected contributions are in, the coordinator waits in
\* Aggregate and the missing party has failed
C4_Witness ==
    /\ \E p \in Participants : NeverSends(p)
    /\ current_state[Coordinator] = AGGREGATE_STATE
    /\ Len(data_incoming) = Cardinality(Parties) - 1
    /\ \A q \in Participants : data_outgoing[q] = <<>>

\* the transition table of the design, keyed by (state, role)
TableCoordinator ==
    { <<INITIAL_STATE, FETCH_DATA_STATE>>, <<FETCH_DATA_STATE, WRITE_STATE>>,
      <<WRITE_STATE, AGGREGATE_STATE>>,
      <<AGGREGATE_STATE, GENERATE_TEST_DATA_STATE>>,
      <<GENERATE_TEST_DATA_STATE, TERMINAL_STATE>> }

TableParticipant ==
    { <<INITIAL_STATE, FETCH_DATA_STATE>>, <<FETCH_DATA_STATE, WRITE_STATE>>,
      <<WRITE_STATE, TERMINAL_STATE>> }

Table(p) == IF p = Coordinator THEN TableCoordinator ELSE TableParticipant

\* C5: every state change of every party is an entry of the transition table
\* for its role; no state is entered twice; Terminal is never left.
C5_TransitionTable ==
    [][\A p \in Parties :
          /\ current_state'[p] # current_state[p]
                => <<current_state[p], current_state'[p]>> \in Table(p)
          /\ NoRepeats(transition_log'[p])
          /\ transition_log'[p][Len(transition_log'[p])] = current_state'[p]
          /\ current_state[p] = TERMINAL_STATE => current_state'[p] = TERMINAL_STATE
      ]_vars

\* both roles have run their whole path
C5_Witness ==
    /\ transition_log[Coordinator] = FullCoordinatorPath
    /\ \E p \in Participants :
          transition_log[p] = <<INITIAL_STATE, FETCH_DATA_STATE, WRITE_STATE,
                                TERMINAL_STATE>>

\* the first position of x in seq (0 when absent)
FirstIndex(x, seq) ==
    IF Occurs(x, seq) THEN CHOOSE i \in 1 .. Len(seq) :
                              seq[i] = x /\ \A j \in 1 .. i - 1 : seq[j] # x
    ELSE 0

\* C6: a participant in Terminal has sent its contribution; a contribution is
\* sent only after the local report was written successfully; a participant
\* whose local write failed has sent nothing.
C6_WriteThenSendThenTerminal ==
    \A p \in Participants :
        /\ current_state[p] = TERMINAL_STATE
              => Occurs("send", events[p]) /\ ContributionsOf(p) >= 1
        /\ (Occurs("send", events[p]) \/ ContributionsOf(p) >= 1)
              => /\ local_csv[p].exists
                 /\ Occurs("write_ok", events[p])
                 /\ FirstIndex("write_ok", events[p]) < FirstIndex("send", events[p])
        /\ Occurs("write_failed", events[p])
              => /\ ~Occurs("send", events[p])
                 /\ ContributionsOf(p) = 0
                 /\ current_state[p] # TERMINAL_STATE

\* one participant has finished after sending, another's write has failed
C6_Witness ==
    \E p, q \in Participants :
        /\ current_state[p] = TERMINAL_STATE
        /\ ContributionsOf(p) = 1
        /\ Occurs("write_failed", events[q])

\* the state a fatal step runs in, and its failure event
FatalSteps ==
    { <<WRITE_STATE, "write_failed">>, <<AGGREGATE_STATE, "aggregate_failed">>,
      <<GENERATE_TEST_DATA_STATE, "sample_failed">> }

\* C7: once a fatal step has failed, the party's run is in the error outcome,
\* still in the state of the failed step (it has not advanced and is not in
\* Terminal), and the step has run exactly once (no retry).
C7_FatalStepEndsRun ==
    \A p \in Parties : \A f \in FatalSteps :
        Occurs(f[2], events[p]) =>
            /\ status[p] = "error"
            /\ current_state[p] = f[1]
            /\ transition_log[p][Len(transition_log[p])] = f[1]
            /\ events[p][Len(events[p])] = f[2]
            /\ Count(f[2], events[p]) = 1

\* the coordinator's sampling has failed after a successful aggregation
C7_Witness ==
    /\ Occurs("sample_failed", events[Coordinator])
    /\ Occurs("aggregate_ok", events[Coordinator])
    /\ status[Coordinator] = "error"

RECURSIVE local_rows_of(_)
\* the local reports' rows of a list of parties, in list order
local_rows_of(parties) ==
    IF parties = <<>> THEN <<>>
    ELSE local_csv[Head(parties)].rows \o local_rows_of(Tail(parties))

RECURSIVE SumLen(_)
SumLen(S) ==
    IF S = {} THEN 0
    ELSE LET p == CHOOSE x \in S : TRUE
         IN  Len(local_csv[p].rows) + SumLen(S \ {p})

\* C9: when aggregation has completed, every contribution is the
\* FilteredResult its party stored in Fetch and wrote in Write, keyed by the
\* party's id; the aggregate report's rows are the local reports' rows in
\* receipt order, so their count is the sum of the local row counts.
C9_AggregateIsLocalReports ==
    Occurs("aggregate_ok", events[Coordinator]) =>
        /\ \A i \in 1 .. Len(reducer_input.data) :
              LET c == reducer_input.data[i][1]
              IN  /\ c.results = store[c.client].filtered_results
                  /\ local_csv[c.client].exists
        /\ aggregated_csv.rows = local_rows_of(Senders(reducer_input.data))
        /\ Len(aggregated_csv.rows) = SumLen(Parties)

\* every party's local report has one row, one party's has two sources with
\* a row each, and the aggregate holds them all
C9_Witness ==
    /\ Occurs("aggregate_ok", events[Coordinator])
    /\ \E p \in Parties : Len(local_csv[p].rows) = 2
    /\ \E p \in Parties : Len(local_csv[p].rows) = 1
    /\ Len(aggregated_csv.rows) = SumLen(Parties)
    /\ Len(aggregated_csv.rows) > Cardinality(Parties)

----------------------------------------------------------------------------
(* dump_all_to_csv applied on its own, to bounded lists of contributions *)

\* the longest list of contributions handed to the reducer
MaxContributions == 2

Row(issued) == filtered_item(Observation(<<"hr">>, "5", issued))

RowLists == { <<>>, <<Row("t1")>>, <<Row("t1"), Row("t2")>>, <<Row("t3")>> }

\* FilteredResults with no, one or two sources
FilteredResults ==
    { <<>> }
    \cup { << [server |-> "s1", rows |-> r] >> : r \in RowLists }
    \cup { << [server |-> "s1", rows |-> r1], [server |-> "s2", rows |-> r2] >> :
              r1 \in RowLists, r2 \in RowLists }

RECURSIVE ContributionLists(_)
\* the lists of n contributions; the i-th comes from party i
ContributionLists(n) ==
    IF n = 0 THEN { <<>> }
    ELSE { Append(l, contribution(n, fr)) :
              l \in ContributionLists(n - 1), fr \in FilteredResults }

InitReduce ==
    /\ InitOrchestrator
    /\ call \in { [fn |-> "dump_all_to_csv", data |-> d, io_ok |-> b] :
                     d \in UNION { ContributionLists(n) : n \in 0 .. MaxContributions },
                     b \in BOOLEAN }
    /\ result = NoResult

ApplyReduce ==
    /\ call.fn = "dump_all_to_csv"
    /\ ~result.done
    /\ LET dumped == dump_all_to_csv(call.data, call.io_ok, NoFile)
       IN  /\ result' = [done |-> TRUE, ok |-> dumped.ok]
           /\ aggregated_csv' = dumped.file
    /\ UNCHANGED <<current_state, status, store, data_outgoing, data_incoming,
                   local_csv, test_data_csv, transition_log, events,
                   reducer_input, call>>

SpecReduce == InitReduce /\ [][ApplyReduce]_vars

\* the places of the input's rows: (contribution, source, row)
Places(data) ==
    UNION { UNION { { <<i, j, k>> :
                        k \in 1 .. Len(data[i][1].results[j].rows) } :
                    j \in 1 .. Len(data[i][1].results) } :
            i \in 1 .. Len(data) }

\* encounter order: by contribution, then by source, then by row
Earlier(t, u) ==
    \/ t[1] < u[1]
    \/ t[1] = u[1] /\ t[2] < u[2]
    \/ t[1] = u[1] /\ t[2] = u[2] /\ t[3] < u[3]

Rank(t, data) == 1 + Cardinality({u \in Places(data) : Earlier(u, t)})

----------------------------------------------------------------------------
(* filter_results applied on its own, to bounded queries and responses *)

\* a key that carries no index
Q_no_index == << Condition(<<"hr">>, ">", "3", NoLogicalOperator) >>

\* a hyphenated name that carries no index
Q_hyphen_name == << Condition(<<"bp", "sys">>, ">", "3", NoLogicalOperator) >>

FilterQueries == {Q_one, Q_two, Q_bad_value, Q_no_index, Q_hyphen_name}

FilterEntryLists == EntryLists \cup { <<E_bp5, E_hr5>>, <<E_hr5>> }

FilterResponses ==
    { << [server |-> "s1", entries |-> e] >> : e \in FilterEntryLists }
    \cup { << [server |-> "s1", entries |-> e1], [server |-> "s2", entries |-> e2] >> :
              e1 \in FilterEntryLists, e2 \in FilterEntryLists }

InitFilter ==
    /\ InitOrchestrator
    /\ call \in { [fn |-> "filter_results", payload |-> q, responses |-> r] :
                     q \in FilterQueries, r \in FilterResponses }
    /\ result = NoResult

ApplyFilter ==
    /\ call.fn = "filter_results"
    /\ ~result.done
    /\ LET filtered == filter_results(call.payload, call.responses)
       IN  result' = [done |-> TRUE, raised |-> filtered.raised,
                      value |-> filtered.value]
    /\ UNCHANGED <<current_state, status, store, data_outgoing, data_incoming,
                   local_csv, aggregated_csv, test_data_csv, transition_log,
                   events, reducer_input, call>>

SpecFilter == InitFilter /\ [][ApplyFilter]_vars

\* a (condition, record) pair of the call whose comparison has a side that
\* is no number
ParseFailure(cond, item) ==
    /\ item.code = key_prefix(cond.key)
    /\ ~Parses(cond.value) \/ ~Parses(item.numericValue)

\* C10: a numeric parse failure on either side of a comparison never raises:
\* the filter completes normally, and a record whose numeric text is no
\* number is absent from its source's rows.
C10_ParseFailureNeverRaises ==
    result.done =>
        \A s \in 1 .. Len(call.responses), c \in 1 .. Len(call.payload) :
            \A i \in 1 .. Len(call.responses[s].entries) :
                LET item == call.responses[s].entries[i]
                IN  ParseFailure(call.payload[c], item) =>
                        /\ ~result.raised
                        /\ ~Parses(item.numericValue) =>
                              ~Occurs(filtered_item(item), result.value[s].rows)

----------------------------------------------------------------------------
(* The field name of a QuerySpec key, applied on its own to bounded keys *)

\* the longest key, in hyphen-separated segments
MaxSegments == 3

KeySegments == {"hr", "bp", "sys", "1", "12"}

\* the segment is a run of digits
IsDigits(segment) == segment \in {"1", "2", "12"}

RECURSIVE KeysOfLength(_)
KeysOfLength(n) ==
    IF n = 0 THEN { <<>> }
    ELSE { Append(k, seg) : k \in KeysOfLength(n - 1), seg \in KeySegments }

Keys == UNION { KeysOfLength(n) : n \in 1 .. MaxSegments }

InitKey ==
    /\ InitOrchestrator
    /\ call \in { [fn |-> "key_prefix", key |-> k] : k \in Keys }
    /\ result = NoResult

ApplyKey ==
    /\ call.fn = "key_prefix"
    /\ ~result.done
    /\ result' = [done |-> TRUE, value |-> key_prefix(call.key)]
    /\ UNCHANGED <<current_state, status, store, data_outgoing, data_incoming,
                   local_csv, aggregated_csv, test_data_csv, transition_log,
                   events, reducer_input, call>>

SpecKey == InitKey /\ [][ApplyKey]_vars

\* the key with a trailing -<digits> index stripped, the key itself when it
\* carries none
StripIndex(key) ==
    IF Len(key) >= 2 /\ IsDigits(key[Len(key)]) THEN AllButLast(key) ELSE key

\* C11: the field name used for a key is the key with a trailing -<digits>
\* index stripped; a key without such an index is its own field name.
C11_FieldNameStripsOnlyIndex ==
    result.done => result.value = StripIndex(call.key)

----------------------------------------------------------------------------
(* Fetch when sources are missing *)

\* every condition of the query carries a numeric comparison value, so the
\* Match Engine itself cannot fail on it
WellFormedQuery(query) == \A i \in 1 .. Len(query) : Parses(query[i].value)

FetchFailed(p) ==
    current_state[p] = FETCH_DATA_STATE /\ status[p] = "error"

\* C12: a party with no configured source, or with a configured source that
\* is absent, is not stopped in Fetch: with a well-formed query Fetch never
\* ends in error, it stores a FilteredResult and goes on to Write.
C12_MissingSourceNotFatal ==
    \A p \in Parties : WellFormedQuery(store[p].query) => ~FetchFailed(p)

----------------------------------------------------------------------------
(* write_to_csv applied on its own, to bounded FilteredResults *)

\* the file at the path before the call: none, or an earlier report
OldFiles ==
    { NoFile,
      [exists |-> TRUE, header |-> keys(Row("t0")),
       rows |-> << values(Row("t0")) >>] }

InitWrite ==
    /\ InitOrchestrator
    /\ call \in { [fn |-> "write_to_csv", filtered_dict |-> fd, io_ok |-> b,
                   old_file |-> f] :
                     fd \in FilteredResults, b \in BOOLEAN, f \in OldFiles }
    /\ result = NoResult

ApplyWrite ==
    /\ call.fn = "write_to_csv"
    /\ ~result.done
    /\ LET written == write_to_csv(call.filtered_dict, call.io_ok, call.old_file)
       IN  /\ result' = [done |-> TRUE, ok |-> written.ok]
           /\ local_csv' = [local_csv EXCEPT ![Coordinator] = written.file]
    /\ UNCHANGED <<current_state, status, store, data_outgoing, data_incoming,
                   aggregated_csv, test_data_csv, transition_log, events,
                   reducer_input, call>>

SpecWrite == InitWrite /\ [][ApplyWrite]_vars

SomeSourceHasRow(fd) == \E j \in 1 .. Len(fd) : Len(fd[j].rows) >= 1

\* the first source, in mapping order, that has a row
FirstNonEmpty(fd) ==
    CHOOSE j \in 1 .. Len(fd) :
        /\ Len(fd[j].rows) >= 1
        /\ \A k \in 1 .. j - 1 : Len(fd[k].rows) = 0

\* C13: whenever at least one source of the FilteredResult has a row (and the
\* file can be written), write_to_csv succeeds, the header is the key list of
\* the first row of the first non-empty source, and every row of every source
\* is written, also when the first source has no rows.
C13_HeaderFromFirstNonEmptySource ==
    (result.done /\ call.io_ok /\ SomeSourceHasRow(call.filtered_dict)) =>
        LET fd == call.filtered_dict
            rows == all_rows(fd)
        IN  /\ result.ok
            /\ local_csv[Coordinator].exists
            /\ local_csv[Coordinator].header = keys(fd[FirstNonEmpty(fd)].rows[1])
            /\ local_csv[Coordinator].rows =
                   [i \in 1 .. Len(rows) |-> values(rows[i])]

----------------------------------------------------------------------------
(* src/utils.py: transform_to_fhir_query, on texts as character sequences *)

\* the characters of a token; a token not listed is a single character
Chars(token) ==
    CASE token = "hr"   -> <<"h", "r">>
      [] token = "hand" -> <<"h", "a", "n", "d">>
      [] token = "nd"   -> <<"n", "d">>
      [] token = "<="   -> <<"<", "=">>
      [] token = ">="   -> <<">", "=">>
      [] token = "q="   -> <<"q", "=">>
      [] token = "and"  -> <<"a", "n", "d">>
      [] token = ""     -> <<>>
      [] OTHER          -> <<token>>

RECURSIVE text(_)
\* the text of a hyphen-joined name, given as its segments
text(segments) ==
    IF segments = <<>> THEN <<>>
    ELSE IF Len(segments) = 1 THEN Chars(segments[1])
    ELSE Chars(Head(segments)) \o <<"-">> \o text(Tail(segments))

RECURSIVE last_logical_operator(_, _)
\* lines 14, 20-21: the variable's value after the i-th entry; before the
\* first entry it is None, which NoLogicalOperator stands for
last_logical_operator(data, i) ==
    IF i = 0 THEN NoLogicalOperator
    ELSE IF data[i].logical_operator # NoLogicalOperator
    THEN data[i].logical_operator
    ELSE last_logical_operator(data, i - 1)

\* the truth value Python gives the variable on line 23
truthy(logical_operator) == logical_operator \notin {NoLogicalOperator, ""}

\* lines 18-30: the part appended for the i-th entry
fhir_query_part(data, i) ==
    LET attribute_name == key_prefix(data[i].key)
        clause == text(attribute_name) \o Chars(data[i].operator)
                      \o Chars(data[i].value)
    IN  IF truthy(last_logical_operator(data, i)) /\ i > 1
        THEN <<"&">> \o clause
        ELSE clause

RECURSIVE fhir_query_parts(_, _)
\* line 32: "".join of the first i parts
fhir_query_parts(data, i) ==
    IF i = 0 THEN <<>>
    ELSE fhir_query_parts(data, i - 1) \o fhir_query_part(data, i)

RECURSIVE replace_and(_)
\* line 34: str.replace("and", "&"), left to right, non-overlapping
replace_and(s) ==
    IF Len(s) < 3 THEN s
    ELSE IF SubSeq(s, 1, 3) = Chars("and")
    THEN <<"&">> \o replace_and(SubSeq(s, 4, Len(s)))
    ELSE <<Head(s)>> \o replace_and(Tail(s))

transform_to_fhir_query(data) ==
    Chars("q=") \o replace_and(fhir_query_parts(data, Len(data)))

----------------------------------------------------------------------------
(* transform_to_fhir_query applied on its own, to bounded QuerySpecs *)

\* the most conditions in a QuerySpec
MaxConditions == 2

QueryKeys == { <<"hr", "1">>, <<"hand", "1">>, <<"nd", "2">>, <<"hr">> }

QueryValues == {"3", "a"}

LogicalOperators == {NoLogicalOperator, "and", "or", ""}

Conditions ==
    { Condition(k, o, v, l) : k \in QueryKeys, o \in {">", "<="},
                              v \in QueryValues, l \in LogicalOperators }

RECURSIVE QuerySpecs(_)
\* the mappings of n conditions: a mapping holds a key once
QuerySpecs(n) ==
    IF n = 0 THEN { <<>> }
    ELSE { Append(q, c) : q \in QuerySpecs(n - 1), c \in Conditions }

DistinctKeys(q) ==
    \A i, j \in 1 .. Len(q) : i # j => q[i].key # q[j].key

InitQuery ==
    /\ InitOrchestrator
    /\ call \in { [fn |-> "transform_to_fhir_query", data |-> q] :
                     q \in { d \in UNION { QuerySpecs(n) : n \in 0 .. MaxConditions } :
                                DistinctKeys(d) } }
    /\ result = NoResult

ApplyQuery ==
    /\ call.fn = "transform_to_fhir_query"
    /\ ~result.done
    /\ result' = [done |-> TRUE, value |-> transform_to_fhir_query(call.data)]
    /\ UNCHANGED <<current_state, status, store, data_outgoing, data_incoming,
                   local_csv, aggregated_csv, test_data_csv, transition_log,
                   events, reducer_input, call>>

SpecQuery == InitQuery /\ [][ApplyQuery]_vars

\* the text s holds the text pattern somewhere
Contains(s, pattern) ==
    \E i \in 1 .. Len(s) - Len(pattern) + 1 :
        SubSeq(s, i, i + Len(pattern) - 1) = pattern

\* a logical_operator is carried by the i-th entry or by an earlier one
SeenLogicalOperator(data, i) ==
    \E j \in 1 .. i : data[j].logical_operator # NoLogicalOperator

\* field + operator + value of the i-th entry
Clause(data, i) ==
    text(StripIndex(data[i].key)) \o Chars(data[i].operator)
        \o Chars(data[i].value)

RECURSIVE JoinedClauses(_, _)
\* the first i clauses, each later one prefixed by "&" once a
\* logical_operator has been seen
JoinedClauses(data, i) ==
    IF i = 0 THEN <<>>
    ELSE JoinedClauses(data, i - 1)
             \o (IF i > 1 /\ SeenLogicalOperator(data, i) THEN <<"&">> ELSE <<>>)
             \o Clause(data, i)

\* C14: the compiled query is "q=" followed by the clauses
\* field+operator+value in mapping order, the first without joiner, each
\* later one prefixed by "&" exactly when a logical_operator has been seen on
\* that entry or an earlier one; the output never contains "and".
C14_CompiledQueryShape ==
    result.done =>
        /\ result.value = Chars("q=") \o JoinedClauses(call.data, Len(call.data))
        /\ ~Contains(result.value, Chars("and"))

----------------------------------------------------------------------------
(* The rows filter_results emits, against the QuerySpec's field names *)

\* the field names of the QuerySpec's entries
FieldNames(payload) == { StripIndex(payload[c].key) : c \in 1 .. Len(payload) }

\* C15: a record whose code equals no QuerySpec field name never appears in
\* its source's rows; every emitted row's code is the field name of some
\* entry, and the row comes from a record of the same source.
C15_OnlyRecordsOfQueriedFields ==
    (result.done /\ ~result.raised) =>
        \A s \in 1 .. Len(call.responses) :
            LET entries == call.responses[s].entries
                rows == result.value[s].rows
            IN  /\ \A i \in 1 .. Len(entries) :
                      entries[i].code \notin FieldNames(call.payload) =>
                          ~Occurs(filtered_item(entries[i]), rows)
                /\ \A k \in 1 .. Len(rows) :
                      /\ rows[k].code \in FieldNames(call.payload)
                      /\ \E i \in 1 .. Len(entries) :
                            rows[k] = filtered_item(entries[i])

----------------------------------------------------------------------------
(* check_numeric_value applied on its own, to bounded texts and operators *)

\* the comparison operators, and two that are none
CheckOperators == ComparisonOperators \cup {"!=", "=="}

InitCheck ==
    /\ InitOrchestrator
    /\ call \in { [fn |-> "check_numeric_value", value |-> v, operator |-> o,
                   numeric_value |-> n] :
                     v \in NumStrings, o \in CheckOperators, n \in NumStrings }
    /\ result = NoResult

ApplyCheck ==
    /\ call.fn = "check_numeric_value"
    /\ ~result.done
    /\ LET outcome == check_numeric_value_outcome(call.value, call.operator,
                                                  call.numeric_value)
       IN  result' = [done |-> TRUE, raised |-> outcome.raised,
                      value |-> outcome.value]
    /\ UNCHANGED <<current_state, status, store, data_outgoing, data_incoming,
                   local_csv, aggregated_csv, test_data_csv, transition_log,
                   events, reducer_input, call>>

SpecCheck == InitCheck /\ [][ApplyCheck]_vars

\* the relation the operator names holds between the numbers a and b
RelationHolds(a, operator, b) ==
    LET d == a - b
    IN  \/ operator = "<" /\ d < 0
        \/ operator = ">" /\ d > 0
        \/ operator = "=" /\ d = 0
        \/ operator = "<=" /\ ~(d > 0)
        \/ operator = ">=" /\ ~(d < 0)

\* C16: check_numeric_value never raises on texts, and returns true exactly
\* when both texts parse as numbers, the operator is one of <, >, =, <=, >=
\* and the relation holds between the numbers.
C16_CheckNumericValue ==
    result.done =>
        /\ ~result.raised
        /\ result.value <=>
              /\ Parses(call.value)
              /\ Parses(call.numeric_value)
              /\ call.operator \in ComparisonOperators
              /\ RelationHolds(float(call.value), call.operator,
                               float(call.numeric_value))

\* "5" <= "5" has been checked and has matched
C16_Witness ==
    /\ result.done
    /\ call.value = "5" /\ call.operator = "<=" /\ call.numeric_value = "5"
    /\ result.value

----------------------------------------------------------------------------
(* What the coordinator receives, and the reducer's header *)

\* the contributions on their way to the coordinator or in its inbox
InFlight ==
    { data_incoming[i] : i \in 1 .. Len(data_incoming) }
    \cup UNION { { data_outgoing[p][i] : i \in 1 .. Len(data_outgoing[p]) } :
                    p \in Parties }

\* C17: every contribution sent to the coordinator has a row in its first
\* source, since a party sends only after write_to_csv succeeded; so when the
\* reducer runs, its header derivation finds the first contribution's first
\* source's first row, and on success the header is the field list of the
\* first row of the flattened output.
C17_ContributionsStartWithARow ==
    /\ \A c \in InFlight : first_row_exists(c[1].results)
    /\ reducer_input.called =>
          /\ \A i \in 1 .. Len(reducer_input.data) :
                first_row_exists(reducer_input.data[i][1].results)
          /\ header_row_exists(reducer_input.data)
          /\ Occurs("aggregate_ok", events[Coordinator]) =>
                /\ flatten(reducer_input.data) # <<>>
                /\ aggregated_csv.header = keys(flatten(reducer_input.data)[1])
                /\ aggregated_csv.rows[1] = values(flatten(reducer_input.data)[1])

\* the reducer has run on a complete set and written the aggregate report,
\* and one contribution has a second source without rows
C17_Witness ==
    /\ reducer_input.called
    /\ Len(reducer_input.data) = ExpectedContributions
    /\ Occurs("aggregate_ok", events[Coordinator])
    /\ \E i \in 1 .. Len(reducer_input.data) :
          LET fr == reducer_input.data[i][1].results
          IN  Len(fr) = 2 /\ fr[2].rows = <<>>

----------------------------------------------------------------------------
(* The rows filter_results emits, pair by pair *)

\* the record's code is the entry's field name and the comparison holds
PairMatches(cond, item) ==
    /\ item.code = StripIndex(cond.key)
    /\ Parses(item.numericValue)
    /\ Parses(cond.value)
    /\ cond.operator \in ComparisonOperators
    /\ RelationHolds(float(item.numericValue), cond.operator, float(cond.value))

RECURSIVE ExpectedRows(_, _)
\* one row per matching (entry, record) pair: entries in mapping order, then
\* records in order; the entries' logical_operator plays no part
ExpectedRows(payload, json_list) ==
    IF payload = <<>> THEN <<>>
    ELSE LET Test(item) == PairMatches(Head(payload), item)
             kept == SelectSeq(json_list, Test)
         IN  [i \in 1 .. Len(kept) |-> filtered_item(kept[i])]
                 \o ExpectedRows(Tail(payload), json_list)

\* the rows the call has emitted for the s-th source
EmittedRows(s) == IF result.raised THEN <<>> ELSE result.value[s].rows

\* C18: per source, filter_results emits one row for every (entry, record)
\* pair in which the record's code equals the entry's field name and the
\* comparison holds, ordered by entry and then by record; a record that
\* satisfies k entries appears k times, and logical_operator has no effect.
C18_OneRowPerMatchingPair ==
    result.done =>
        \A s \in 1 .. Len(call.responses) :
            EmittedRows(s) = ExpectedRows(call.payload, call.responses[s].entries)

----------------------------------------------------------------------------
(* sample_data applied on its own, to bounded keyword arguments *)

\* fractions in percent, and seeds
FracValues == {0, 30, 50, 100}

RandomStates == {0, 7, 123}

\* the keyword arguments of a call: frac, random_state, both or none
Kwargs ==
    { kw \in UNION { [D -> FracValues \cup RandomStates] :
                        D \in SUBSET {"frac", "random_state"} } :
        /\ "frac" \in DOMAIN kw => kw["frac"] \in FracValues
        /\ "random_state" \in DOMAIN kw => kw["random_state"] \in RandomStates }

InitSample ==
    /\ InitOrchestrator
    /\ call \in { [fn |-> "sample_data", input_file |-> f, kwargs |-> kw,
                   io_ok |-> b] :
                     f \in OldFiles, kw \in Kwargs, b \in BOOLEAN }
    /\ result = NoResult

ApplySample ==
    /\ call.fn = "sample_data"
    /\ ~result.done
    /\ LET sampled == sample_data_call(call.input_file, call.kwargs, call.io_ok)
       IN  /\ result' = [done |-> TRUE, ok |-> sampled.ok, frac |-> sampled.frac,
                         random_state |-> sampled.random_state]
           /\ test_data_csv' = sampled.ok
    /\ UNCHANGED <<current_state, status, store, data_outgoing, data_incoming,
                   local_csv, aggregated_csv, transition_log, events,
                   reducer_input, call>>

SpecSample == InitSample /\ [][ApplySample]_vars

\* the keyword's value when it is given, the default when it is omitted
GivenOr(kwargs, name, default) ==
    IF name \in DOMAIN kwargs THEN kwargs[name] ELSE default

\* C19: on a readable input file (and a writable output), sample_data
\* returns True and samples with the frac and random_state it was given;
\* 0.2 and 42 apply only when the argument is omitted.
C19_ExplicitArgumentsUsed ==
    (result.done /\ call.input_file.exists /\ call.io_ok) =>
        /\ result.ok
        /\ test_data_csv
        /\ result.frac = GivenOr(call.kwargs, "frac", DefaultFrac)
        /\ result.random_state =
               GivenOr(call.kwargs, "random_state", DefaultRandomState)

====
